---- MODULE Spec2Model ----
(***************************************************************************)
(* Model of scripts/combine_sprites.py: the sprite-sheet composer.  One    *)
(* run of main() walks the asset tree, writes one sheet per (entity,       *)
(* direction) and finally the aggregate metadata document.                 *)
(***************************************************************************)
EXTENDS Integers, Sequences, FiniteSets, TLC

(***************************************************************************)
(* Bounds of the explored asset trees.                                     *)
(***************************************************************************)
\* Largest number of frame files in one (animation, direction) directory.
MaxLen == 3
\* Frame count of every authored directory in the multi-entity layouts.
LayoutLen == 2
\* Number of consecutive invocations of the script on one asset tree.
MaxRuns == 2
\* Largest number of entries of a listed direction directory.
MaxFiles == 3

(***************************************************************************)
(* Static tables of the script.                                            *)
(***************************************************************************)
\* Python's None, as opposed to the empty string "".
None == "<None>"

ANIM_ORDER ==
    << <<"idle", "breathing-idle">>,
       <<"run", "running-6-frames">>,
       <<"jump", "two-footed-jump">>,
       <<"special", None>>,
       <<"attack", "cross-punch">> >>

SPECIAL_ANIMS ==
    [n \in {"bolt", "gale", "vex", "forge", "nimbus"} |->
        CASE n = "bolt" -> "hurricane-kick"
          [] n = "gale" -> "hurricane-kick"
          [] n = "vex" -> "running-slide"
          [] n = "forge" -> "running-slide"
          [] n = "nimbus" -> "jumping-1"]

ENEMY_ANIM_ORDER ==
    [n \in {"slime", "bat", "skeleton"} |->
        CASE n = "slime" ->
                << <<"idle", "breathing-idle">>,
                   <<"walk", "walking">>,
                   <<"jump", "jumping-1">>,
                   <<"hurt", "taking-punch">> >>
          [] n = "bat" ->
                << <<"idle", "breathing-idle">>,
                   <<"walk", "walking-6-frames">>,
                   <<"fly", "jumping-1">>,
                   <<"hurt", "taking-punch">> >>
          [] n = "skeleton" ->
                << <<"idle", "breathing-idle">>,
                   <<"walk", "walking-6-frames">>,
                   <<"attack", "cross-punch">>,
                   <<"hurt", "falling-back-death">> >>]

\* Variant with two directions exchanged.
DIRECTIONS_exchanged == <<"south", "east", "west", "north">>

DIRECTIONS == <<"south", "west", "east", "north">>

FRAME_SIZE == 64

skip_dirs == {"sheets", "enemies", "objects", "tilesets"}

(***************************************************************************)
(* The explored universe of names.                                         *)
(***************************************************************************)
\* Entries that may exist directly under the root asset directory.
TopNames == {"bolt", "enemies", "sheets", "slime", "zed"}
\* Entries that may exist under enemies/.
EnemyNames == {"ghost", "slime"}
\* What a directory entry can be: absent, a regular file, a directory
\* without animations/, a directory with an animations/ subtree.
Kinds == {"none", "file", "dir", "animdir"}
\* Names of the animation directories that the trees may contain.
Sources ==
    {"breathing-idle", "running-6-frames", "two-footed-jump", "cross-punch",
     "hurricane-kick", "walking", "jumping-1", "taking-punch"}
DirectionSet == {DIRECTIONS[i] : i \in 1..Len(DIRECTIONS)}
\* A direction directory: <<class, entity name, animation, direction>>.
Cells == ({"hero"} \X (TopNames \ skip_dirs) \X Sources \X DirectionSet)
            \cup ({"enemy"} \X EnemyNames \X Sources \X DirectionSet)

\* Lexicographic rank of the explored names (Python compares the paths of
\* one parent directory by name).
NameRank ==
    [n \in TopNames \cup EnemyNames |->
        CASE n = "bolt" -> 1
          [] n = "enemies" -> 2
          [] n = "ghost" -> 3
          [] n = "sheets" -> 4
          [] n = "slime" -> 5
          [] n = "zed" -> 6]

VARIABLES
    root,          \* TRUE iff the root asset directory exists
    top,           \* kind of every entry under the root
    enemy,         \* kind of every entry under enemies/
    tree,          \* existing direction directories -> number of frame files
    sheetFile,     \* written sheet files: <<entity, direction>> -> sheet
    metaFile,      \* <<>> or <<document>>: the metadata.json file
    pc,            \* position of the run inside main()
    heroQueue,     \* entries of the hero loop still to be visited
    enemyQueue,    \* entries of the enemy loop still to be visited
    cur,           \* <<class, name>> of the entity being processed
    dirIdx,        \* index into DIRECTIONS of the next sheet of cur
    max_frames,    \* max_frames of cur
    cur_metadata,  \* all_metadata of process_character / process_enemy
    all_metadata,  \* all_metadata of main
    writeLog,      \* every sheet.save of the run, in order
    metaWrites,    \* number of times the run wrote the metadata document
    failedAt,      \* entity whose processing raised, <<>> if none
    emptySaveOk,   \* TRUE once the encoder has written an empty image
    exitStatus,    \* process exit status; -1 while running
    emptySaveRaised, \* TRUE once the encoder has refused an empty image
    run,           \* number of the current invocation, from 1
    prevOut,       \* <<>> or <<what the previous invocation left behind>>
    listed_path,      \* the direction path handed to get_frame_files, by name
    listed_frames,        \* what that call returned
    listed_state   \* "idle" before the call, "returned" after it

vars == <<root, top, enemy, tree, sheetFile, metaFile, pc, heroQueue,
          enemyQueue, cur, dirIdx, max_frames, cur_metadata, all_metadata,
          writeLog, metaWrites, failedAt, emptySaveOk, exitStatus,
          emptySaveRaised, run, prevOut, listed_path, listed_frames, listed_state>>

\* The call of get_frame_files that is followed file name by file name.
listingVars == <<listed_path, listed_frames, listed_state>>

\* What one invocation of main never changes.
invocationVars == <<run, prevOut, listingVars>>

(***************************************************************************)
(* Frame discovery.                                                        *)
(***************************************************************************)
\* sorted(dir_path.glob("frame_*.png")) of a directory holding n frame
\* files: the frames, by index, in ascending order.
GlobSorted(n) == [i \in 1..n |-> i - 1]

\* anim_dir is <<class, entity, animation>>; the result is the sequence of
\* frame files of anim_dir/direction, empty when that directory is missing.
get_frame_files(anim_dir, direction) ==
    LET dir_path == <<anim_dir[1], anim_dir[2], anim_dir[3], direction>>
    IN  IF dir_path \notin DOMAIN tree
        THEN <<>>
        ELSE GlobSorted(tree[dir_path])

\* anim_path.exists(): the animation directory exists iff it holds some
\* direction directory.
AnimPathExists(anim_path) ==
    \E d \in DirectionSet :
        <<anim_path[1], anim_path[2], anim_path[3], d>> \in DOMAIN tree

\* Variant of the inner loop that scans every direction for the largest
\* frame count.
RECURSIVE AllDirectionsCount(_, _)
AllDirectionsCount(anim_path, i) ==
    IF i > Len(DIRECTIONS)
    THEN 0
    ELSE LET n == Len(get_frame_files(anim_path, DIRECTIONS[i]))
             rest == AllDirectionsCount(anim_path, i + 1)
         IN  IF n >= rest THEN n ELSE rest

\* Variant of the inner loop that looks at the first direction only.
SouthOnlyCount(anim_path, i) ==
    Len(get_frame_files(anim_path, DIRECTIONS[1]))

\* The inner loop of the two counters: the frame count of the first
\* direction, from DIRECTIONS[i] on, that has frames; 0 when none has.
RECURSIVE FirstDirectionCount(_, _)
FirstDirectionCount(anim_path, i) ==
    IF i > Len(DIRECTIONS)
    THEN 0
    ELSE LET frames == get_frame_files(anim_path, DIRECTIONS[i])
         IN  IF frames # <<>>
             THEN Len(frames)
             ELSE FirstDirectionCount(anim_path, i + 1)

\* Variant that keeps the count of the latest row.
MaxLatest(a, b) == b

Max(a, b) == IF a >= b THEN a ELSE b

\* Variant whose lookup falls back to an animation name instead of "".
HeroSourceDefaultKick(pixellab_name, char_name) ==
    IF pixellab_name = None
    THEN IF char_name \in DOMAIN SPECIAL_ANIMS
         THEN SPECIAL_ANIMS[char_name]
         ELSE "hurricane-kick"
    ELSE pixellab_name

\* The source name of a hero row: None is looked up in SPECIAL_ANIMS,
\* with "" for a character that is not in the table.
HeroSource(pixellab_name, char_name) ==
    IF pixellab_name = None
    THEN IF char_name \in DOMAIN SPECIAL_ANIMS
         THEN SPECIAL_ANIMS[char_name]
         ELSE ""
    ELSE pixellab_name

\* The loop of count_max_frames from row i on, max_so_far being max_frames.
RECURSIVE CountHeroRows(_, _, _, _)
CountHeroRows(char_dir, char_name, i, max_so_far) ==
    IF i > Len(ANIM_ORDER)
    THEN max_so_far
    ELSE LET pixellab_name == HeroSource(ANIM_ORDER[i][2], char_name)
             anim_path == <<char_dir[1], char_dir[2], pixellab_name>>
         IN  IF pixellab_name = ""
             THEN CountHeroRows(char_dir, char_name, i + 1, max_so_far)
             ELSE IF AnimPathExists(anim_path)
             THEN CountHeroRows(char_dir, char_name, i + 1,
                      Max(max_so_far, FirstDirectionCount(anim_path, 1)))
             ELSE CountHeroRows(char_dir, char_name, i + 1, max_so_far)

count_max_frames(char_dir, char_name) ==
    CountHeroRows(char_dir, char_name, 1, 0)

\* ENEMY_ANIM_ORDER.get(enemy_name, [])
EnemyAnimOrder(enemy_name) ==
    IF enemy_name \in DOMAIN ENEMY_ANIM_ORDER
    THEN ENEMY_ANIM_ORDER[enemy_name]
    ELSE <<>>

\* Variant of the enemy count that looks at every direction of a row.
RECURSIVE CountEnemyRowsEveryDirection(_, _, _, _)
CountEnemyRowsEveryDirection(enemy_dir, anim_order, i, max_so_far) ==
    IF i > Len(anim_order)
    THEN max_so_far
    ELSE LET counts == {Len(get_frame_files(
                               <<enemy_dir[1], enemy_dir[2], anim_order[i][2]>>,
                               d)) : d \in DirectionSet}
             longest == CHOOSE m \in counts : \A n \in counts : n <= m
         IN  CountEnemyRowsEveryDirection(enemy_dir, anim_order, i + 1,
                 IF anim_order[i][2] # "" /\ longest > max_so_far
                 THEN longest ELSE max_so_far)

\* The loop of count_enemy_max_frames from row i on.
RECURSIVE CountEnemyRows(_, _, _, _)
CountEnemyRows(enemy_dir, anim_order, i, max_so_far) ==
    IF i > Len(anim_order)
    THEN max_so_far
    ELSE LET pixellab_name == anim_order[i][2]
             anim_path == <<enemy_dir[1], enemy_dir[2], pixellab_name>>
         IN  IF pixellab_name = ""
             THEN CountEnemyRows(enemy_dir, anim_order, i + 1, max_so_far)
             ELSE IF AnimPathExists(anim_path)
             THEN CountEnemyRows(enemy_dir, anim_order, i + 1,
                      Max(max_so_far, FirstDirectionCount(anim_path, 1)))
             ELSE CountEnemyRows(enemy_dir, anim_order, i + 1, max_so_far)

count_enemy_max_frames(enemy_dir, enemy_name) ==
    CountEnemyRows(enemy_dir, EnemyAnimOrder(enemy_name), 1, 0)

(***************************************************************************)
(* Sheet composition.  A sheet is its pixel size and the paste operations  *)
(* applied to the transparent canvas: frame idx of animation src pasted    *)
(* with its top-left corner at (x, y).                                     *)
(***************************************************************************)
\* The paste loop of one row: frame number col of frames goes to column col.
PasteRow(frames, row, pixellab_name, direction) ==
    {[x |-> (col - 1) * FRAME_SIZE, y |-> row * FRAME_SIZE,
      src |-> pixellab_name, dir |-> direction, idx |-> frames[col]] :
        col \in 1..Len(frames)}

\* Variant that numbers the rows from 1.
RowMetadataOneBased(row, frames, pixellab_name) ==
    [row |-> row + 1, frames |-> Len(frames), source |-> pixellab_name]

\* anim_metadata[state_name] of a row that had frames.
RowMetadata(row, frames, pixellab_name) ==
    [row |-> row, frames |-> Len(frames), source |-> pixellab_name]

\* Variant without the "if not frames: continue" of line 127.
HeroRowsWithSource(char_dir, char_name, direction) ==
    {i \in 1..Len(ANIM_ORDER) : HeroSource(ANIM_ORDER[i][2], char_name) # ""}

\* The rows (1-based positions in ANIM_ORDER) that the loop of
\* create_sprite_sheet does not leave with a continue.
HeroRowsPasted(char_dir, char_name, direction) ==
    {i \in 1..Len(ANIM_ORDER) :
        LET pixellab_name == HeroSource(ANIM_ORDER[i][2], char_name)
        IN  /\ pixellab_name # ""
            /\ get_frame_files(<<char_dir[1], char_dir[2], pixellab_name>>,
                               direction) # <<>>}

\* The "Warning: No frames for ..." lines of create_sprite_sheet (line
\* 128): one per row that has a source name and no frames.
HeroWarnings(char_dir, char_name, direction) ==
    {<<char_name, HeroSource(ANIM_ORDER[i][2], char_name), direction>> :
        i \in {j \in 1..Len(ANIM_ORDER) :
                  /\ HeroSource(ANIM_ORDER[j][2], char_name) # ""
                  /\ j \notin HeroRowsPasted(char_dir, char_name, direction)}}

\* The result <<sheet, anim_metadata>> as a record, with the diagnostics
\* printed on the way.
create_sprite_sheet(char_dir, char_name, direction, maxf) ==
    LET num_rows == Len(ANIM_ORDER)
        rows == HeroRowsPasted(char_dir, char_name, direction)
        src(i) == HeroSource(ANIM_ORDER[i][2], char_name)
        frames(i) == get_frame_files(<<char_dir[1], char_dir[2], src(i)>>,
                                     direction)
    IN  [sheet |->
            [width |-> maxf * FRAME_SIZE,
             height |-> num_rows * FRAME_SIZE,
             pastes |-> UNION {PasteRow(frames(i), i - 1, src(i), direction) :
                                  i \in rows}],
         anim_metadata |->
            [state_name \in {ANIM_ORDER[i][1] : i \in rows} |->
                LET i == CHOOSE j \in rows : ANIM_ORDER[j][1] = state_name
                IN  RowMetadata(i - 1, frames(i), src(i))],
         warnings |-> HeroWarnings(char_dir, char_name, direction)]

EnemyRowsPasted(enemy_dir, anim_order, direction) ==
    {i \in 1..Len(anim_order) :
        /\ anim_order[i][2] # ""
        /\ get_frame_files(<<enemy_dir[1], enemy_dir[2], anim_order[i][2]>>,
                           direction) # <<>>}

\* The warnings of create_enemy_sprite_sheet (line 221).
EnemyWarnings(enemy_dir, enemy_name, anim_order, direction) ==
    {<<enemy_name, anim_order[i][2], direction>> :
        i \in {j \in 1..Len(anim_order) :
                  /\ anim_order[j][2] # ""
                  /\ j \notin EnemyRowsPasted(enemy_dir, anim_order, direction)}}

\* Lines 205-236: create_enemy_sprite_sheet once anim_order is looked up.
create_enemy_sprite_sheet_with(enemy_dir, enemy_name, anim_order, direction, maxf) ==
    LET num_rows == Len(anim_order)
        rows == EnemyRowsPasted(enemy_dir, anim_order, direction)
        frames(i) == get_frame_files(
                        <<enemy_dir[1], enemy_dir[2], anim_order[i][2]>>,
                        direction)
    IN  [sheet |->
            [width |-> maxf * FRAME_SIZE,
             height |-> num_rows * FRAME_SIZE,
             pastes |-> UNION {PasteRow(frames(i), i - 1, anim_order[i][2],
                                        direction) : i \in rows}],
         anim_metadata |->
            [state_name \in {anim_order[i][1] : i \in rows} |->
                LET i == CHOOSE j \in rows : anim_order[j][1] = state_name
                IN  RowMetadata(i - 1, frames(i), anim_order[i][2])],
         warnings |-> EnemyWarnings(enemy_dir, enemy_name, anim_order,
                                    direction)]

create_enemy_sprite_sheet(enemy_dir, enemy_name, direction, maxf) ==
    create_enemy_sprite_sheet_with(enemy_dir, enemy_name,
                                   EnemyAnimOrder(enemy_name), direction, maxf)

\* sheet.save(out_path, "PNG"): the encoder is not part of the script; an
\* image with an empty dimension may be refused or written.
SaveMayFail(sheet) == sheet.width = 0 \/ sheet.height = 0

\* Variant that lists the names in descending order.
RECURSIVE sorted_descending(_)
sorted_descending(S) ==
    IF S = {}
    THEN <<>>
    ELSE LET last == CHOOSE n \in S : \A m \in S : NameRank[m] <= NameRank[n]
         IN  <<last>> \o sorted_descending(S \ {last})

\* sorted(d.iterdir()) restricted to the entries that exist: the names in
\* S in ascending lexicographic order.
RECURSIVE sorted(_)
sorted(S) ==
    IF S = {}
    THEN <<>>
    ELSE LET least == CHOOSE n \in S : \A m \in S : NameRank[n] <= NameRank[m]
         IN  <<least>> \o sorted(S \ {least})

(***************************************************************************)
(* Initial states: the asset tree before a run, and the run about to      *)
(* start.                                                                  *)
(***************************************************************************)
EmptyMap == [x \in {} |-> x]

NoEntity == <<>>

NoMetadata ==
    [kind |-> "", name |-> "", frame_size |-> 0, max_frames |-> 0,
     directions |-> EmptyMap]

InitRun ==
    /\ sheetFile = EmptyMap
    /\ metaFile = <<>>
    /\ pc = "start"
    /\ heroQueue = <<>>
    /\ enemyQueue = <<>>
    /\ cur = NoEntity
    /\ dirIdx = 0
    /\ max_frames = 0
    /\ cur_metadata = NoMetadata
    /\ all_metadata = EmptyMap
    /\ writeLog = <<>>
    /\ metaWrites = 0
    /\ failedAt = NoEntity
    /\ emptySaveOk = FALSE
    /\ emptySaveRaised = FALSE
    /\ run = 1
    /\ prevOut = <<>>
    /\ exitStatus = -1

\* The entities whose animation trees are explored cell by cell.
FocusEntities == {<<"hero", "bolt">>, <<"hero", "zed">>, <<"enemy", "slime">>}

\* A tree with the two direction directories c1 and c2 (one when c1 = c2),
\* holding n1 and n2 frame files.
TwoCellTree(c1, n1, c2, n2) ==
    [c \in {c1, c2} |-> IF c = c1 THEN n1 ELSE n2]

\* One entity with an animations/ subtree of at most two direction
\* directories, of any animation and direction and any frame count.
InitSparseOf(entities) ==
    /\ root = TRUE
    /\ \E e \in entities :
          /\ top = [n \in TopNames |->
                       IF e[1] = "hero" /\ n = e[2] THEN "animdir"
                       ELSE IF e[1] = "enemy" /\ n = "enemies" THEN "dir"
                       ELSE "none"]
          /\ enemy = [n \in EnemyNames |->
                         IF e[1] = "enemy" /\ n = e[2] THEN "animdir"
                         ELSE "none"]
          /\ \E s1 \in Sources, d1 \in DirectionSet, n1 \in 0..MaxLen,
                s2 \in Sources, d2 \in DirectionSet, n2 \in 0..MaxLen :
                tree = TwoCellTree(<<e[1], e[2], s1, d1>>, n1,
                                   <<e[1], e[2], s2, d2>>, n2)

InitSparse == InitSparseOf(FocusEntities)

\* The tree in which every entity directory of the layout that has an
\* animations/ subtree holds n frames of every animation and direction.
UniformTree(t, en, n) ==
    [c \in {c \in Cells :
                \/ c[1] = "hero" /\ t[c[2]] = "animdir"
                \/ c[1] = "enemy" /\ en[c[2]] = "animdir"} |-> n]

\* Any mix of entries under the root and under enemies/, each authored
\* entity either fully authored or with an empty animations/ subtree.
InitLayout ==
    /\ root \in BOOLEAN
    /\ top \in [TopNames -> Kinds]
    /\ enemy \in [EnemyNames -> Kinds]
    /\ ~root => \A n \in TopNames : top[n] = "none"
    /\ top["enemies"] \in {"none", "file", "dir"}
    /\ top["zed"] \in {"none", "animdir"}
    /\ top["enemies"] # "dir" => \A n \in EnemyNames : enemy[n] = "none"
    /\ \E n \in {0, LayoutLen} : tree = UniformTree(top, enemy, n)

\* One entity whose idle animation has 4 frames in south and 6 in east and
\* nothing else.
InitScenario ==
    /\ root = TRUE
    /\ \E e \in FocusEntities :
          /\ top = [n \in TopNames |->
                       IF e[1] = "hero" /\ n = e[2] THEN "animdir"
                       ELSE IF e[1] = "enemy" /\ n = "enemies" THEN "dir"
                       ELSE "none"]
          /\ enemy = [n \in EnemyNames |->
                         IF e[1] = "enemy" /\ n = e[2] THEN "animdir"
                         ELSE "none"]
          /\ tree = TwoCellTree(<<e[1], e[2], "breathing-idle", "south">>, 4,
                                <<e[1], e[2], "breathing-idle", "east">>, 6)

\* No direction path is followed by file name.
NoDirPath == [kind |-> "none", entries |-> {}]

InitNoListing ==
    /\ listed_path = NoDirPath
    /\ listed_frames = <<>>
    /\ listed_state = "idle"

Init == InitRun /\ InitNoListing /\ (InitSparse \/ InitScenario \/ InitLayout)

(***************************************************************************)
(* main()                                                                  *)
(***************************************************************************)
Running == pc \notin {"done", "aborted", "failed"}

\* An uncaught exception ends the process.
Raise(entity) ==
    /\ pc' = "failed"
    /\ failedAt' = entity
    /\ exitStatus' = 1

\* Variant without the root check.
RootCheckDropped == FALSE

\* Line 278: not pixellab_dir.exists()
RootMissing == ~root

\* Lines 274-290: the root check, mkdir of the output directory and the
\* listing of the root for the hero loop.
main_start ==
    /\ pc = "start"
    /\ IF RootMissing
       THEN /\ pc' = "aborted"
            /\ exitStatus' = 0
            /\ UNCHANGED <<top, heroQueue, failedAt>>
       ELSE IF top["sheets"] = "file"
       THEN /\ Raise(NoEntity)
            /\ UNCHANGED <<top, heroQueue>>
       ELSE /\ top' = [top EXCEPT !["sheets"] = IF @ = "none" THEN "dir" ELSE @]
            /\ heroQueue' = sorted({n \in TopNames : top'[n] # "none"})
            /\ pc' = "heroes"
            /\ UNCHANGED <<failedAt, exitStatus>>
    /\ UNCHANGED <<root, enemy, tree, sheetFile, metaFile, enemyQueue, cur,
                   dirIdx, max_frames, cur_metadata, all_metadata, writeLog,
                   metaWrites, emptySaveOk>>
    /\ UNCHANGED <<emptySaveRaised, invocationVars>>

is_dir(kind) == kind \in {"dir", "animdir"}

\* Lines 291-293: the test that lets an entry of the root into
\* process_character.
IsHero(name) ==
    /\ is_dir(top[name])
    /\ name \notin skip_dirs
    /\ top[name] = "animdir"

\* An entry of the root that is not processed.
hero_skip ==
    /\ pc = "heroes"
    /\ heroQueue # <<>>
    /\ ~IsHero(Head(heroQueue))
    /\ heroQueue' = Tail(heroQueue)
    /\ UNCHANGED <<root, top, enemy, tree, sheetFile, metaFile, pc, enemyQueue,
                   cur, dirIdx, max_frames, cur_metadata, all_metadata,
                   writeLog, metaWrites, failedAt, emptySaveOk, exitStatus>>
    /\ UNCHANGED <<emptySaveRaised, invocationVars>>

\* process_character, lines 150-161.
process_character_begin ==
    /\ pc = "heroes"
    /\ heroQueue # <<>>
    /\ IsHero(Head(heroQueue))
    /\ LET char_name == Head(heroQueue)
           char_dir == <<"hero", char_name>>
           maxf == count_max_frames(char_dir, char_name)
       IN  /\ cur' = char_dir
           /\ max_frames' = maxf
           /\ cur_metadata' = [kind |-> "character", name |-> char_name,
                               frame_size |-> FRAME_SIZE, max_frames |-> maxf,
                               directions |-> EmptyMap]
    /\ heroQueue' = Tail(heroQueue)
    /\ dirIdx' = 1
    /\ pc' = "hero_sheets"
    /\ UNCHANGED <<root, top, enemy, tree, sheetFile, metaFile, enemyQueue,
                   all_metadata, writeLog, metaWrites, failedAt, emptySaveOk,
                   exitStatus>>
    /\ UNCHANGED <<emptySaveRaised, invocationVars>>

\* The sheet path of the metadata, relative to the grandparent of the
\* output directory.
SheetPath(name, direction) == <<name, direction>>

\* What one pass of the direction loop leaves behind once the sheet is
\* saved; after the last direction the entity's metadata is returned and
\* stored under its name by main (lines 294 and 302).
SheetSaved(made, direction, back) ==
    LET name == cur[2]
        out_path == SheetPath(name, direction)
        meta == [cur_metadata EXCEPT !.directions =
                    (direction :> [sheet |-> out_path,
                                   animations |-> made.anim_metadata]) @@ @]
    IN  /\ SaveMayFail(made.sheet) => ~emptySaveRaised
        /\ sheetFile' = (out_path :> made.sheet) @@ sheetFile
        /\ emptySaveOk' = (emptySaveOk \/ SaveMayFail(made.sheet))
        /\ writeLog' = Append(writeLog,
                              [class |-> cur[1], name |-> name,
                               direction |-> direction, sheet |-> made.sheet,
                               animations |-> made.anim_metadata,
                               warnings |-> made.warnings])
        /\ IF dirIdx < Len(DIRECTIONS)
           THEN /\ dirIdx' = dirIdx + 1
                /\ cur_metadata' = meta
                /\ UNCHANGED <<pc, cur, max_frames, all_metadata>>
           ELSE /\ all_metadata' = (name :> meta) @@ all_metadata
                /\ pc' = back
                /\ cur' = NoEntity
                /\ dirIdx' = 0
                /\ max_frames' = 0
                /\ cur_metadata' = NoMetadata

\* The largest frame count of one direction of a hero.
DirectionMax(char_dir, char_name, direction) ==
    LET rows == HeroRowsPasted(char_dir, char_name, direction)
        n(i) == Len(get_frame_files(
                      <<char_dir[1], char_dir[2],
                        HeroSource(ANIM_ORDER[i][2], char_name)>>, direction))
    IN  IF rows = {}
        THEN 0
        ELSE CHOOSE m \in {n(i) : i \in rows} : \A i \in rows : n(i) <= m

\* Variant that sizes every sheet by its own direction.
process_character_sheet_recount ==
    /\ pc = "hero_sheets"
    /\ LET direction == DIRECTIONS[dirIdx]
           made == create_sprite_sheet(cur, cur[2], direction,
                                       DirectionMax(cur, cur[2], direction))
       IN  SheetSaved(made, direction, "heroes")
    /\ UNCHANGED <<root, top, enemy, tree, metaFile, heroQueue, enemyQueue,
                   metaWrites, failedAt, exitStatus>>
    /\ UNCHANGED <<emptySaveRaised, invocationVars>>

\* process_character, lines 163-175, one direction.
process_character_sheet ==
    /\ pc = "hero_sheets"
    /\ LET direction == DIRECTIONS[dirIdx]
           made == create_sprite_sheet(cur, cur[2], direction, max_frames)
       IN  SheetSaved(made, direction, "heroes")
    /\ UNCHANGED <<root, top, enemy, tree, metaFile, heroQueue, enemyQueue,
                   metaWrites, failedAt, exitStatus>>
    /\ UNCHANGED <<emptySaveRaised, invocationVars>>

\* Line 169 raising: the exception leaves process_character and main.
process_character_save_error ==
    /\ pc = "hero_sheets"
    /\ SaveMayFail(create_sprite_sheet(cur, cur[2], DIRECTIONS[dirIdx],
                                       max_frames).sheet)
    /\ ~emptySaveOk
    /\ Raise(cur)
    /\ UNCHANGED <<root, top, enemy, tree, sheetFile, metaFile, heroQueue,
                   enemyQueue, cur, dirIdx, max_frames, cur_metadata,
                   all_metadata, writeLog, metaWrites, emptySaveOk>>
    /\ emptySaveRaised' = TRUE
    /\ UNCHANGED invocationVars

\* Variant that goes from the hero loop straight to the metadata.
enemies_start_omitted ==
    /\ pc = "heroes"
    /\ heroQueue = <<>>
    /\ pc' = "meta"
    /\ UNCHANGED <<root, top, enemy, tree, sheetFile, metaFile, heroQueue,
                   enemyQueue, cur, dirIdx, max_frames, cur_metadata,
                   all_metadata, writeLog, metaWrites, failedAt, emptySaveOk,
                   exitStatus>>
    /\ UNCHANGED <<emptySaveRaised, invocationVars>>

\* Lines 297-300, after the hero loop.
enemies_start ==
    /\ pc = "heroes"
    /\ heroQueue = <<>>
    /\ IF top["enemies"] = "none"
       THEN /\ pc' = "meta"
            /\ UNCHANGED <<enemyQueue, failedAt, exitStatus>>
       ELSE IF ~is_dir(top["enemies"])
       THEN /\ Raise(NoEntity)
            /\ UNCHANGED enemyQueue
       ELSE /\ enemyQueue' = sorted({n \in EnemyNames : enemy[n] # "none"})
            /\ pc' = "enemies"
            /\ UNCHANGED <<failedAt, exitStatus>>
    /\ UNCHANGED <<root, top, enemy, tree, sheetFile, metaFile, heroQueue, cur,
                   dirIdx, max_frames, cur_metadata, all_metadata, writeLog,
                   metaWrites, emptySaveOk>>
    /\ UNCHANGED <<emptySaveRaised, invocationVars>>

\* Variant without the table test.
IsEnemyAnyDir(name) == is_dir(enemy[name])

\* Line 301: the test that lets an entry of enemies/ into process_enemy.
IsEnemy(name) ==
    /\ is_dir(enemy[name])
    /\ name \in DOMAIN ENEMY_ANIM_ORDER

enemy_skip ==
    /\ pc = "enemies"
    /\ enemyQueue # <<>>
    /\ ~IsEnemy(Head(enemyQueue))
    /\ enemyQueue' = Tail(enemyQueue)
    /\ UNCHANGED <<root, top, enemy, tree, sheetFile, metaFile, pc, heroQueue,
                   cur, dirIdx, max_frames, cur_metadata, all_metadata,
                   writeLog, metaWrites, failedAt, emptySaveOk, exitStatus>>
    /\ UNCHANGED <<emptySaveRaised, invocationVars>>

\* process_enemy, lines 241-252.
process_enemy_begin ==
    /\ pc = "enemies"
    /\ enemyQueue # <<>>
    /\ IsEnemy(Head(enemyQueue))
    /\ LET enemy_name == Head(enemyQueue)
           enemy_dir == <<"enemy", enemy_name>>
           maxf == count_enemy_max_frames(enemy_dir, enemy_name)
       IN  /\ cur' = enemy_dir
           /\ max_frames' = maxf
           /\ cur_metadata' = [kind |-> "enemy", name |-> enemy_name,
                               frame_size |-> FRAME_SIZE, max_frames |-> maxf,
                               directions |-> EmptyMap]
    /\ enemyQueue' = Tail(enemyQueue)
    /\ dirIdx' = 1
    /\ pc' = "enemy_sheets"
    /\ UNCHANGED <<root, top, enemy, tree, sheetFile, metaFile, heroQueue,
                   all_metadata, writeLog, metaWrites, failedAt, emptySaveOk,
                   exitStatus>>
    /\ UNCHANGED <<emptySaveRaised, invocationVars>>

\* process_enemy, lines 254-267, one direction.
process_enemy_sheet ==
    /\ pc = "enemy_sheets"
    /\ LET direction == DIRECTIONS[dirIdx]
           made == create_enemy_sprite_sheet(cur, cur[2], direction, max_frames)
       IN  SheetSaved(made, direction, "enemies")
    /\ UNCHANGED <<root, top, enemy, tree, metaFile, heroQueue, enemyQueue,
                   metaWrites, failedAt, exitStatus>>
    /\ UNCHANGED <<emptySaveRaised, invocationVars>>

\* Line 261 raising.
process_enemy_save_error ==
    /\ pc = "enemy_sheets"
    /\ SaveMayFail(create_enemy_sprite_sheet(cur, cur[2], DIRECTIONS[dirIdx],
                                             max_frames).sheet)
    /\ ~emptySaveOk
    /\ Raise(cur)
    /\ UNCHANGED <<root, top, enemy, tree, sheetFile, metaFile, heroQueue,
                   enemyQueue, cur, dirIdx, max_frames, cur_metadata,
                   all_metadata, writeLog, metaWrites, emptySaveOk>>
    /\ emptySaveRaised' = TRUE
    /\ UNCHANGED invocationVars

\* The enemy loop has run out.
enemies_done ==
    /\ pc = "enemies"
    /\ enemyQueue = <<>>
    /\ pc' = "meta"
    /\ UNCHANGED <<root, top, enemy, tree, sheetFile, metaFile, heroQueue,
                   enemyQueue, cur, dirIdx, max_frames, cur_metadata,
                   all_metadata, writeLog, metaWrites, failedAt, emptySaveOk,
                   exitStatus>>
    /\ UNCHANGED <<emptySaveRaised, invocationVars>>

\* Variant that opens metadata.json for appending.
write_metadata_append ==
    /\ pc = "meta"
    /\ metaFile' = Append(metaFile, all_metadata)
    /\ metaWrites' = metaWrites + 1
    /\ pc' = "done"
    /\ exitStatus' = 0
    /\ UNCHANGED <<root, top, enemy, tree, sheetFile, heroQueue, enemyQueue,
                   cur, dirIdx, max_frames, cur_metadata, all_metadata,
                   writeLog, failedAt, emptySaveOk>>
    /\ UNCHANGED <<emptySaveRaised, invocationVars>>

\* Lines 305-308: json.dump of all_metadata, then the advisory text and
\* the return of main.
write_metadata ==
    /\ pc = "meta"
    /\ metaFile' = <<all_metadata>>
    /\ metaWrites' = metaWrites + 1
    /\ pc' = "done"
    /\ exitStatus' = 0
    /\ UNCHANGED <<root, top, enemy, tree, sheetFile, heroQueue, enemyQueue,
                   cur, dirIdx, max_frames, cur_metadata, all_metadata,
                   writeLog, failedAt, emptySaveOk>>
    /\ UNCHANGED <<emptySaveRaised, invocationVars>>

Next ==
    \/ main_start
    \/ hero_skip
    \/ process_character_begin
    \/ process_character_sheet
    \/ process_character_save_error
    \/ enemies_start
    \/ enemy_skip
    \/ process_enemy_begin
    \/ process_enemy_sheet
    \/ process_enemy_save_error
    \/ enemies_done
    \/ write_metadata

Spec == Init /\ [][Next]_vars

(***************************************************************************)
(* Repeated invocations on one asset tree.                                 *)
(***************************************************************************)
\* The process has ended and the script is invoked again (lines 351-352)
\* on the tree as the ended invocation left it; the encoder is the same.
rerun ==
    /\ ~Running
    /\ run < MaxRuns
    /\ run' = run + 1
    /\ prevOut' = <<[sheets |-> sheetFile, meta |-> metaFile,
                     log |-> writeLog, pc |-> pc]>>
    /\ pc' = "start"
    /\ heroQueue' = <<>>
    /\ enemyQueue' = <<>>
    /\ cur' = NoEntity
    /\ dirIdx' = 0
    /\ max_frames' = 0
    /\ cur_metadata' = NoMetadata
    /\ all_metadata' = EmptyMap
    /\ writeLog' = <<>>
    /\ metaWrites' = 0
    /\ failedAt' = NoEntity
    /\ exitStatus' = -1
    /\ UNCHANGED <<root, top, enemy, tree, sheetFile, metaFile, emptySaveOk,
                   emptySaveRaised, listingVars>>

InitRerun ==
    InitRun /\ InitNoListing /\ (InitSparseOf({<<"hero", "bolt">>}) \/ InitScenario \/ InitLayout)

NextRerun == Next \/ rerun

SpecRerun == InitRerun /\ [][NextRerun]_vars

(***************************************************************************)
(* get_frame_files on the file names of one direction directory.           *)
(* A name is the sequence of its characters.  GlobSorted(n) above is this  *)
(* result for a directory with n matching names, each name replaced by its *)
(* position in the result.                                                 *)
(***************************************************************************)
pattern_prefix == <<"f", "r", "a", "m", "e", "_">>
pattern_suffix == <<".", "p", "n", "g">>

\* What stands between "frame_" and ".png" in the names that are tried.
Stems == {<<>>, <<"1">>, <<"2">>, <<"0", "1">>, <<"0", "2">>, <<"1", "0">>,
          <<"x">>}

FrameFileNames == {pattern_prefix \o s \o pattern_suffix : s \in Stems}

OtherFileNames == {<<"f", "r", "a", "m", "e", "_", "1", ".", "t", "x", "t">>,
                   <<"f", "r", "a", "m", "e", "1", ".", "p", "n", "g">>,
                   <<"i", "d", "l", "e", ".", "p", "n", "g">>}

FileNames == FrameFileNames \cup OtherFileNames

\* The path is absent, a plain file, or a directory of at most MaxFiles
\* entries.
DirPaths ==
    {NoDirPath, [kind |-> "file", entries |-> {}]}
        \cup {[kind |-> "dir", entries |-> {f[i] : i \in DOMAIN f}] :
                 f \in UNION {[1..k -> FileNames] : k \in 0..MaxFiles}}

\* Code point of a character.
ord(c) ==
    CASE c = "." -> 46  [] c = "0" -> 48  [] c = "1" -> 49  [] c = "2" -> 50
      [] c = "_" -> 95  [] c = "a" -> 97  [] c = "d" -> 100 [] c = "e" -> 101
      [] c = "f" -> 102 [] c = "g" -> 103 [] c = "i" -> 105 [] c = "l" -> 108
      [] c = "m" -> 109 [] c = "n" -> 110 [] c = "p" -> 112 [] c = "r" -> 114
      [] c = "t" -> 116 [] c = "x" -> 120

\* Line 74: dir_path.exists().
exists(p) == p.kind # "none"

\* fnmatch of a name against "frame_*.png": literal head, literal tail, and
\* any characters, none included, between them.
fnmatch(name) ==
    /\ Len(name) >= Len(pattern_prefix) + Len(pattern_suffix)
    /\ SubSeq(name, 1, Len(pattern_prefix)) = pattern_prefix
    /\ SubSeq(name, Len(name) - Len(pattern_suffix) + 1, Len(name))
           = pattern_suffix

\* Line 76: dir_path.glob("frame_*.png"); nothing is yielded for a path that
\* is not a directory.
glob(p) == IF p.kind = "dir" THEN {n \in p.entries : fnmatch(n)} ELSE {}

\* Variant comparison: the shorter name first, equal lengths by code points.
RECURSIVE path_lt_shortlex(_, _)
path_lt_shortlex(a, b) ==
    IF Len(a) # Len(b) THEN Len(a) < Len(b)
    ELSE IF a = <<>> THEN FALSE
    ELSE IF ord(Head(a)) # ord(Head(b)) THEN ord(Head(a)) < ord(Head(b))
    ELSE path_lt_shortlex(Tail(a), Tail(b))

\* Line 76: the order sorted() puts paths of one directory in, which is the
\* order of their names as strings, character by character.
RECURSIVE path_lt(_, _)
path_lt(a, b) ==
    IF b = <<>> THEN FALSE
    ELSE IF a = <<>> THEN TRUE
    ELSE IF ord(Head(a)) # ord(Head(b)) THEN ord(Head(a)) < ord(Head(b))
    ELSE path_lt(Tail(a), Tail(b))

RECURSIVE insert(_, _)
insert(x, s) ==
    IF s = <<>> THEN <<x>>
    ELSE IF path_lt(x, Head(s)) THEN <<x>> \o s
    ELSE <<Head(s)>> \o insert(x, Tail(s))

\* Line 76: sorted() of what glob yields, in whatever order it yields it.
RECURSIVE sorted_frames(_)
sorted_frames(S) ==
    IF S = {} THEN <<>>
    ELSE LET x == CHOOSE y \in S : TRUE
         IN  insert(x, sorted_frames(S \ {x}))

\* Lines 71-77 on file names.
get_frame_files_in(p) ==
    IF ~exists(p) THEN <<>> ELSE sorted_frames(glob(p))

get_frame_files_call ==
    /\ listed_state = "idle"
    /\ listed_frames' = get_frame_files_in(listed_path)
    /\ listed_state' = "returned"
    /\ UNCHANGED <<root, top, enemy, tree, sheetFile, metaFile, pc, heroQueue,
                   enemyQueue, cur, dirIdx, max_frames, cur_metadata,
                   all_metadata, writeLog, metaWrites, failedAt, emptySaveOk,
                   exitStatus, emptySaveRaised, run, prevOut, listed_path>>

InitFrames ==
    /\ InitRun
    /\ root = FALSE
    /\ top = [n \in TopNames |-> "none"]
    /\ enemy = [n \in EnemyNames |-> "none"]
    /\ tree = EmptyMap
    /\ listed_path \in DirPaths
    /\ listed_frames = <<>>
    /\ listed_state = "idle"

NextFrames == get_frame_files_call

SpecFrames == InitFrames /\ [][NextFrames]_vars

(***************************************************************************)
(* Vocabulary of the properties.                                           *)
(***************************************************************************)
\* The resolved RowPlan of an entity: its (state, source) pairs in order.
RowPlan(e) ==
    IF e[1] = "hero"
    THEN [i \in 1..Len(ANIM_ORDER) |->
             <<ANIM_ORDER[i][1], HeroSource(ANIM_ORDER[i][2], e[2])>>]
    ELSE EnemyAnimOrder(e[2])

\* Length of the FrameSequence of row i of e in direction d; a row without
\* a source animation has none.
FrameSequenceLen(e, i, d) ==
    LET src == RowPlan(e)[i][2]
        c == <<e[1], e[2], src, d>>
    IN  IF src # "" /\ c \in DOMAIN tree THEN tree[c] ELSE 0

\* Length of the FrameSequence of row i in the first direction, in the
\* order of DIRECTIONS, in which it is non-empty; 0 when there is none.
FirstNonEmptyLen(e, i) ==
    LET ks == {k \in 1..Len(DIRECTIONS) :
                  FrameSequenceLen(e, i, DIRECTIONS[k]) > 0}
    IN  IF ks = {}
        THEN 0
        ELSE FrameSequenceLen(e, i,
                 DIRECTIONS[CHOOSE k \in ks : \A j \in ks : k <= j])

SetMax(S) == CHOOSE m \in S : \A n \in S : n <= m

\* max_frames by the "first non-empty direction" sampling rule.
SampledMax(e) ==
    SetMax({0} \cup {FirstNonEmptyLen(e, i) : i \in 1..Len(RowPlan(e))})

LogEntity(w) == <<w.class, w.name>>

LogRange == {writeLog[k] : k \in 1..Len(writeLog)}

\* The directions in which the run has saved a sheet of e.
SavedDirections(e) == {w.direction : w \in {v \in LogRange : LogEntity(v) = e}}

\* The entity directories the two loops of main process.
DiscoveredHeroes == {<<"hero", n>> : n \in {m \in TopNames : IsHero(m)}}
DiscoveredEnemies ==
    IF is_dir(top["enemies"])
    THEN {<<"enemy", n>> : n \in {m \in EnemyNames : IsEnemy(m)}}
    ELSE {}

\* Entity directories that have no animations/ subtree.
BareEntities ==
    {<<"hero", n>> : n \in {m \in TopNames \ skip_dirs : top[m] = "dir"}}
        \cup {<<"enemy", n>> :
                 n \in {m \in EnemyNames \cap DOMAIN ENEMY_ANIM_ORDER :
                           top["enemies"] = "dir" /\ enemy[m] = "dir"}}

\* The tree of the scenario: idle with 4 frames in south and 6 in east.
ScenarioTree(e) ==
    tree = TwoCellTree(<<e[1], e[2], "breathing-idle", "south">>, 4,
                       <<e[1], e[2], "breathing-idle", "east">>, 6)

(***************************************************************************)
(* Properties.                                                             *)
(***************************************************************************)
\* C1: every sheet saved for an entity is max_frames x cell size wide and
\* (rows of its RowPlan) x cell size high, so all sheets of one entity have
\* the same size: max_frames is not recomputed per direction.
C1_SheetDimensions ==
    \A w \in LogRange :
        /\ w.sheet.width = SampledMax(LogEntity(w)) * FRAME_SIZE
        /\ w.sheet.height = Len(RowPlan(LogEntity(w))) * FRAME_SIZE
        /\ \A v \in LogRange :
              LogEntity(v) = LogEntity(w) =>
                  /\ v.sheet.width = w.sheet.width
                  /\ v.sheet.height = w.sheet.height

\* All four sheets of an entity saved, whose directions differ in their
\* largest frame count.
C1_Witness ==
    \E w \in LogRange :
        /\ SavedDirections(LogEntity(w)) = DirectionSet
        /\ w.sheet.width > 0
        /\ \E i \in 1..Len(RowPlan(LogEntity(w))), d1, d2 \in DirectionSet :
              /\ FrameSequenceLen(LogEntity(w), i, d1) > 0
              /\ FrameSequenceLen(LogEntity(w), i, d2) >
                     FrameSequenceLen(LogEntity(w), i, d1)

\* C2: a row with N >= 1 frames in a direction has metadata frame count N,
\* its frames are pasted in columns 0..N-1 of the row, and all of these
\* columns lie inside the sheet (N <= max_frames).
C2_FramesInsideSheet ==
    \A w \in LogRange :
        \A i \in 1..Len(RowPlan(LogEntity(w))) :
            LET n == FrameSequenceLen(LogEntity(w), i, w.direction)
                state == RowPlan(LogEntity(w))[i][1]
            IN  n >= 1 =>
                  /\ state \in DOMAIN w.animations
                  /\ w.animations[state].frames = n
                  /\ {p.x : p \in {q \in w.sheet.pastes :
                                      q.y = (i - 1) * FRAME_SIZE}}
                        = {col * FRAME_SIZE : col \in 0..(n - 1)}
                  /\ n * FRAME_SIZE <= w.sheet.width

C4_MetadataIffFrames ==
    \A w \in LogRange :
        LET plan == RowPlan(LogEntity(w))
        IN  /\ DOMAIN w.animations \subseteq {plan[i][1] : i \in 1..Len(plan)}
            /\ \A i \in 1..Len(plan) :
                  (plan[i][1] \in DOMAIN w.animations)
                      <=> FrameSequenceLen(LogEntity(w), i, w.direction) > 0
            /\ w.sheet.height = Len(plan) * FRAME_SIZE

\* A saved sheet with one documented row and one row that has frames in
\* some other direction only.
C4_Witness ==
    \E w \in LogRange :
        \E i, j \in 1..Len(RowPlan(LogEntity(w))) :
            /\ FrameSequenceLen(LogEntity(w), i, w.direction) > 0
            /\ RowPlan(LogEntity(w))[i][1] \in DOMAIN w.animations
            /\ FrameSequenceLen(LogEntity(w), j, w.direction) = 0
            /\ RowPlan(LogEntity(w))[j][1] \notin DOMAIN w.animations
            /\ \E d \in DirectionSet : FrameSequenceLen(LogEntity(w), j, d) > 0

\* C5: the row of a metadata entry is the zero-based position of its state
\* in the RowPlan, and the frames of that row are pasted at y = row x cell
\* size.
C5_RowIsPlanPosition ==
    \A w \in LogRange :
        LET plan == RowPlan(LogEntity(w))
        IN  /\ \A state \in DOMAIN w.animations :
                  \E i \in 1..Len(plan) :
                      /\ plan[i][1] = state
                      /\ w.animations[state].row = i - 1
                      /\ w.animations[state].source = plan[i][2]
            /\ \A p \in w.sheet.pastes :
                  \E i \in 1..Len(plan) :
                      /\ plan[i][2] = p.src
                      /\ p.y = (i - 1) * FRAME_SIZE

\* A documented row that follows a row without frames.
C5_Witness ==
    \E w \in LogRange :
        \E state \in DOMAIN w.animations :
            /\ w.animations[state].row >= 2
            /\ \E i \in 1..w.animations[state].row :
                  FrameSequenceLen(LogEntity(w), i, w.direction) = 0
            /\ \E p \in w.sheet.pastes :
                  p.y = w.animations[state].row * FRAME_SIZE

\* C6: an entity directory without animations/ is skipped: no sheet is
\* saved for it, no metadata entry is made for it, and the run does not
\* fail in it.
C6_BareEntitySkipped ==
    \A e \in BareEntities :
        /\ \A w \in LogRange : LogEntity(w) # e
        /\ cur # e
        /\ failedAt # e
        /\ e[2] \in DOMAIN all_metadata =>
              all_metadata[e[2]].kind #
                  (IF e[1] = "hero" THEN "character" ELSE "enemy")

\* C7: without the root asset directory nothing is written: no output
\* directory, no sheet, no metadata document.
C7_NoOutputWithoutRoot ==
    ~root =>
        /\ top["sheets"] = "none"
        /\ sheetFile = EmptyMap
        /\ writeLog = <<>>
        /\ metaFile = <<>>
        /\ metaWrites = 0
        /\ pc \in {"start", "aborted"}

C7_Witness == ~root /\ pc = "aborted"

\* C8: a run that found no root asset directory ends with a non-zero exit
\* status.
C8_MissingRootExitsNonZero ==
    (~root /\ pc = "aborted") => exitStatus # 0

\* C9: the metadata document is written at most once, only when every
\* discovered hero and enemy has all its sheets saved; a completed run has
\* written it and a run that stopped early has not.
C9_MetadataLast ==
    /\ metaWrites <= 1
    /\ (metaFile # <<>>) <=> (metaWrites = 1)
    /\ metaWrites = 1 =>
          /\ pc = "done"
          /\ cur = NoEntity
          /\ \A e \in DiscoveredHeroes \cup DiscoveredEnemies :
                SavedDirections(e) = DirectionSet
    /\ pc \in {"aborted", "failed"} => metaWrites = 0
    /\ pc = "done" => metaWrites = 1

\* A completed run over a hero and an enemy.
C9_Witness ==
    /\ pc = "done"
    /\ metaWrites = 1
    /\ DiscoveredHeroes # {}
    /\ DiscoveredEnemies # {}

\* C10: no sheet path is saved twice in one run.
C10_SheetWrittenOnce ==
    \A j, k \in 1..Len(writeLog) :
        (/\ writeLog[j].name = writeLog[k].name
         /\ writeLog[j].direction = writeLog[k].direction) => j = k

\* The entities all of whose sheets the run has saved.
ProcessedEntities ==
    {e \in {LogEntity(w) : w \in LogRange} : SavedDirections(e) = DirectionSet}

\* The document's key for the class of an entity.
KindOf(e) == IF e[1] = "hero" THEN "character" ELSE "enemy"

\* C11: the metadata document of a completed run has, for every processed
\* entity, an entry of that entity's own kind and max_frames with its four
\* direction slices.
C11_EveryProcessedEntityInDocument ==
    (pc = "done" /\ metaFile # <<>>) =>
        \A e \in ProcessedEntities :
            /\ e[2] \in DOMAIN metaFile[1]
            /\ metaFile[1][e[2]].kind = KindOf(e)
            /\ metaFile[1][e[2]].max_frames = SampledMax(e)
            /\ DOMAIN metaFile[1][e[2]].directions = DirectionSet

\* C13: a directory under enemies/ whose name is not in the enemy table is
\* never processed: no sheet and no metadata entry is made for it.
C13_UnknownEnemyIgnored ==
    \A n \in EnemyNames \ DOMAIN ENEMY_ANIM_ORDER :
        /\ cur # <<"enemy", n>>
        /\ failedAt # <<"enemy", n>>
        /\ \A w \in LogRange : LogEntity(w) # <<"enemy", n>>
        /\ n \in DOMAIN all_metadata => all_metadata[n].kind # "enemy"
        /\ metaFile # <<>> => n \notin DOMAIN metaFile[1]

\* A completed run over an enemies/ghost directory that has frames.
C13_Witness ==
    /\ pc = "done"
    /\ enemy["ghost"] = "animdir"
    /\ <<"enemy", "ghost", "walking", "south">> \in DOMAIN tree
    /\ tree[<<"enemy", "ghost", "walking", "south">>] > 0
    /\ writeLog # <<>>

\* The sheets saved for heroes that are not in the special-animation table.
PlainHeroSheets ==
    {w \in LogRange : w.class = "hero" /\ w.name \notin DOMAIN SPECIAL_ANIMS}

\* C14: for a hero outside the special-animation table the special row has
\* no metadata entry and no pasted frame and does not count towards
\* max_frames, while the sheet is five rows high and attack stays row 4.
C14_SpecialRowSkipped ==
    \A w \in PlainHeroSheets :
        /\ "special" \notin DOMAIN w.animations
        /\ \A p \in w.sheet.pastes : p.y # 3 * FRAME_SIZE
        /\ w.sheet.width =
              FRAME_SIZE * SetMax({0} \cup {FirstNonEmptyLen(LogEntity(w), i) :
                                              i \in {1, 2, 3, 5}})
        /\ w.sheet.height = 5 * FRAME_SIZE
        /\ "attack" \in DOMAIN w.animations =>
              /\ w.animations["attack"].row = 4
              /\ \E p \in w.sheet.pastes : p.y = 4 * FRAME_SIZE

\* Such a hero whose tree holds a special animation longer than its attack.
C14_Witness ==
    \E w \in PlainHeroSheets :
        /\ "attack" \in DOMAIN w.animations
        /\ <<"hero", w.name, "hurricane-kick", w.direction>> \in DOMAIN tree
        /\ tree[<<"hero", w.name, "hurricane-kick", w.direction>>]
              > w.animations["attack"].frames

\* C15: an entity whose max_frames is 0 is not composed: the direction
\* loop is not entered with max_frames = 0 and no zero-width sheet is saved.
C15_NoZeroWidthSheet ==
    /\ pc \in {"hero_sheets", "enemy_sheets"} => max_frames > 0
    /\ \A w \in LogRange : w.sheet.width > 0

\* C16: max_frames is 0 exactly when no row of the RowPlan has a frame in
\* any direction.
C16_ZeroIffNoFrames ==
    cur # NoEntity =>
        ((max_frames = 0) <=>
            \A i \in 1..Len(RowPlan(cur)), d \in DirectionSet :
                FrameSequenceLen(cur, i, d) = 0)

\* An entity with frames, none of them in the first direction.
C16_Witness ==
    /\ cur # NoEntity
    /\ max_frames >= 1
    /\ \A i \in 1..Len(RowPlan(cur)) : FrameSequenceLen(cur, i, "south") = 0

\* The saves of the run that belong to entity e, in order.
EntityLog(e) ==
    LET OfE(w) == LogEntity(w) = e
    IN  SelectSeq(writeLog, OfE)

LoggedEntities == {LogEntity(w) : w \in LogRange}

\* C17: the sheets of an entity are saved one per direction in the order
\* south, west, east, north, each with its metadata slice (the empty
\* mapping when the direction has no frames); an entity that has been left
\* has all four, and every stored entry has four direction slices.
C17_OneSheetPerDirectionInOrder ==
    /\ \A e \in LoggedEntities :
          LET log == EntityLog(e)
          IN  /\ Len(log) <= 4
              /\ \A k \in 1..Len(log) :
                    /\ log[k].direction = <<"south", "west", "east", "north">>[k]
                    /\ (log[k].animations = EmptyMap) <=>
                          \A i \in 1..Len(RowPlan(e)) :
                              FrameSequenceLen(e, i, log[k].direction) = 0
              /\ e # cur => Len(log) = 4
              /\ e = cur => DOMAIN cur_metadata.directions
                                = {log[k].direction : k \in 1..Len(log)}
    /\ \A n \in DOMAIN all_metadata :
          /\ DOMAIN all_metadata[n].directions
                = {"south", "west", "east", "north"}
          /\ \E w \in LogRange : w.name = n

\* A fully processed entity with frames in one direction and none in
\* another.
C17_Witness ==
    \E e \in LoggedEntities :
        /\ Len(EntityLog(e)) = 4
        /\ e # cur
        /\ EntityLog(e)[1].sheet.width > 0
        /\ \E j, k \in 1..4 :
              /\ EntityLog(e)[j].animations = EmptyMap
              /\ EntityLog(e)[k].animations # EmptyMap

C18_MissingFramesNotFatal ==
    /\ \A w \in LogRange :
          \A i \in 1..Len(RowPlan(LogEntity(w))) :
              LET src == RowPlan(LogEntity(w))[i][2]
              IN  (src # "" /\ FrameSequenceLen(LogEntity(w), i, w.direction) = 0)
                      => /\ <<w.name, src, w.direction>> \in w.warnings
                         /\ \A p \in w.sheet.pastes : p.y # (i - 1) * FRAME_SIZE
    /\ failedAt = NoEntity
    /\ pc = "failed" => (top["sheets"] = "file" \/ top["enemies"] = "file")

\* C12: an invocation that follows another on the same tree ends as the
\* earlier one did, having saved the same sheets with the same contents and
\* left the same metadata document; the output directory is never processed
\* as an entity.
C12_RerunIdempotent ==
    /\ (run > 1 /\ ~Running) =>
          /\ pc = prevOut[1].pc
          /\ writeLog = prevOut[1].log
          /\ sheetFile = prevOut[1].sheets
          /\ metaFile = prevOut[1].meta
    /\ \A w \in LogRange : ~(w.class = "hero" /\ w.name = "sheets")

\* A second invocation completed after a first one that wrote sheets and
\* the metadata of a hero and an enemy.
C12_Witness ==
    /\ run = 2
    /\ pc = "done"
    /\ prevOut[1].pc = "done"
    /\ \E v, w \in LogRange : v.class = "hero" /\ w.class = "enemy"
    /\ \E p \in DOMAIN sheetFile : sheetFile[p].pastes # {}

\* The frame-file pattern as a statement about the name: "frame_", then any
\* characters, then ".png".
MatchesPattern(n) ==
    \E k \in 0..(Len(n) - Len(pattern_prefix)) :
        n = pattern_prefix \o SubSeq(n, Len(pattern_prefix) + 1,
                                     Len(pattern_prefix) + k)
              \o pattern_suffix

\* Lexicographic order of two names: at the first position where they differ
\* a has the smaller character, or a ends there.
LexLess(a, b) ==
    \E k \in 1..Len(b) :
        /\ k <= Len(a) + 1
        /\ \A i \in 1..(k - 1) : a[i] = b[i]
        /\ (k = Len(a) + 1 \/ ord(a[k]) < ord(b[k]))

\* The part of a matching name between "frame_" and ".png".
Stem(n) == SubSeq(n, Len(pattern_prefix) + 1, Len(n) - Len(pattern_suffix))

IsIndex(s) == s # <<>> /\ \A i \in 1..Len(s) : s[i] \in {"0", "1", "2"}

RECURSIVE IndexValue(_)
IndexValue(s) ==
    IF s = <<>> THEN 0
    ELSE IndexValue(SubSeq(s, 1, Len(s) - 1)) * 10
            + (ord(s[Len(s)]) - ord("0"))

FramesRange == {listed_frames[i] : i \in 1..Len(listed_frames)}

\* Every returned name carries a decimal index, all of one width.
SameWidthIndices ==
    /\ \A n \in FramesRange : IsIndex(Stem(n))
    /\ \A n, m \in FramesRange : Len(Stem(n)) = Len(Stem(m))

\* C19: get_frame_files returns; for a path that does not exist it returns
\* the empty sequence; otherwise it returns each entry that matches the
\* frame-file pattern once and nothing else, in lexicographic order of the
\* names, which is ascending order of the indices when the indices are
\* zero-padded to one width.
C19_FrameFilesLexicographic ==
    listed_state = "returned" =>
        /\ listed_path.kind = "none" => listed_frames = <<>>
        /\ FramesRange = {n \in listed_path.entries : MatchesPattern(n)}
        /\ \A i, j \in 1..Len(listed_frames) :
              i < j => LexLess(listed_frames[i], listed_frames[j])
        /\ SameWidthIndices =>
              \A i, j \in 1..Len(listed_frames) :
                  i < j => IndexValue(Stem(listed_frames[i]))
                              < IndexValue(Stem(listed_frames[j]))

\* A directory holding two frames of one index width and a name that does not
\* match has been listed.
C19_Witness ==
    /\ listed_state = "returned"
    /\ listed_path.kind = "dir"
    /\ Len(listed_frames) = 2
    /\ SameWidthIndices
    /\ listed_path.entries \ FramesRange # {}

\* C21: in the metadata document of a completed run, no animation of any
\* direction of any entity has a frame count above the max_frames recorded
\* for that entity.
C21_FrameCountWithinMaxFrames ==
    pc = "done" =>
        \A name \in DOMAIN metaFile[1] :
            LET m == metaFile[1][name]
            IN  \A d \in DOMAIN m.directions :
                    \A state \in DOMAIN m.directions[d].animations :
                        m.directions[d].animations[state].frames
                            <= m.max_frames

\* In every row of e, the directions that have frames have equally many.
EqualAcrossDirections(e) ==
    \A i \in 1..Len(RowPlan(e)) :
        \A d1, d2 \in DirectionSet :
            (FrameSequenceLen(e, i, d1) > 0 /\ FrameSequenceLen(e, i, d2) > 0)
                => FrameSequenceLen(e, i, d1) = FrameSequenceLen(e, i, d2)

\* The longest FrameSequence of e over all rows and directions.
TrueMax(e) ==
    SetMax({0} \cup {FrameSequenceLen(e, i, d) :
                        i \in 1..Len(RowPlan(e)), d \in DirectionSet})

\* C22: for an entity whose rows each have one frame count in all the
\* directions that have frames, max_frames is the longest FrameSequence of
\* the entity, every sheet is that many cells wide and every pasted frame
\* lies inside its sheet.
C22_EqualDirectionsExactMax ==
    /\ (cur # NoEntity /\ EqualAcrossDirections(cur))
          => max_frames = TrueMax(cur)
    /\ \A w \in LogRange :
          EqualAcrossDirections(LogEntity(w)) =>
              /\ w.sheet.width = TrueMax(LogEntity(w)) * FRAME_SIZE
              /\ \A p \in w.sheet.pastes :
                    /\ 0 <= p.x /\ p.x + FRAME_SIZE <= w.sheet.width
                    /\ 0 <= p.y /\ p.y + FRAME_SIZE <= w.sheet.height

\* A sheet has been saved for such an entity in a direction where an earlier
\* row is longer than a later row that has frames.
C22_Witness ==
    \E w \in LogRange :
        /\ EqualAcrossDirections(LogEntity(w))
        /\ \E i, j \in 1..Len(RowPlan(LogEntity(w))) :
              /\ i < j
              /\ FrameSequenceLen(LogEntity(w), j, w.direction) > 0
              /\ FrameSequenceLen(LogEntity(w), i, w.direction)
                    > FrameSequenceLen(LogEntity(w), j, w.direction)
        /\ w.sheet.pastes # {}

\* What the enemy pipeline makes of plan and of the animation tree of entity
\* e in direction d: count_enemy_max_frames and create_enemy_sprite_sheet
\* with plan in the place of the looked-up anim_order.
EnemyPipeline(e, plan, d) ==
    create_enemy_sprite_sheet_with(e, e[2], plan, d,
                                   CountEnemyRows(e, plan, 1, 0))

\* C23: on the resolved RowPlan of a hero and the hero's animation tree the
\* enemy pipeline returns the max_frames the hero pipeline returns and, for
\* every direction, the sheet dimensions, the pasted cells and the metadata
\* slice of the hero's sheet.
C23_PipelinesAgreeOnPlan ==
    /\ (cur # NoEntity /\ cur[1] = "hero")
          => max_frames = CountEnemyRows(cur, RowPlan(cur), 1, 0)
    /\ \A w \in LogRange :
          w.class = "hero" =>
              LET made == EnemyPipeline(LogEntity(w), RowPlan(LogEntity(w)),
                                        w.direction)
              IN  /\ w.sheet.width = made.sheet.width
                  /\ w.sheet.height = made.sheet.height
                  /\ w.sheet.pastes = made.sheet.pastes
                  /\ w.animations = made.anim_metadata

\* A hero without a special animation has a sheet with frames pasted in one
\* row and a row left empty.
C23_Witness ==
    \E w \in LogRange :
        /\ w.class = "hero"
        /\ \E i \in 1..Len(RowPlan(LogEntity(w))) :
              RowPlan(LogEntity(w))[i][2] = ""
        /\ w.sheet.pastes # {}
        /\ w.warnings # {}

====
